---- MODULE Spec2Model ----
\* Session gating and session synchronisation of the cookbook application:
\* the middleware (Access Gate), POST /api/auth/set (Session Sync Endpoint),
\* GET /auth/welcome, POST /api/auth/signout, the login page's handleLogin and
\* the prisma User table they write.
\*
\* Strings the code inspects character by character (paths, e-mails, ids,
\* usernames) are sequences of one-character strings, so that startsWith,
\* split('@')[0] and slice(0, 8) are computed as the code computes them.
EXTENDS Integers, Sequences, FiniteSets, TLC

VARIABLES
    cookies,         \* the browser's server-readable session cookie
    users,           \* the prisma User table, a sequence of rows
    req,             \* the browser's current request and how far it got
    resp,            \* the response the browser received last
    gate,            \* what the last run of the middleware did
    sync,            \* what the last run of a route handler did
    login,           \* the login page's component state
    procs,           \* two sync requests being handled at the same time
    hist,            \* whom the provider issued sessions to, whose upsert failed
    adapter,         \* what the last setAll of the server-render client did
    recipes,         \* the prisma Recipe table, a sequence of rows
    env,             \* the environment variables and what they led to
    auth             \* the AuthProvider component and the provider it listens to

\* the state the request pipeline leaves alone
side == <<procs, hist, adapter, recipes>>

outer == <<env, auth>>

vars ==
    <<cookies, users, req, resp, gate, sync, login, procs, hist, adapter, recipes,
      env, auth>>

-----------------------------------------------------------------------------
\* Strings

\* undefined / null: a one-element sequence that is no string of characters
Undefined == <<"undefined">>
EmptyStr == <<>>

\* JavaScript truthiness of an optional string
Truthy(x) == x # Undefined /\ x # EmptyStr

StartsWith(s, p) == Len(p) <= Len(s) /\ SubSeq(s, 1, Len(p)) = p
EndsWith(s, p) == Len(p) <= Len(s) /\ SubSeq(s, Len(s) - Len(p) + 1, Len(s)) = p

P_root == <<"/">>
P_login == <<"/", "l", "o", "g", "i", "n">>
P_signup == <<"/", "s", "i", "g", "n", "u", "p">>
P_welcome == <<"/", "a", "u", "t", "h", "/", "w", "e", "l", "c", "o", "m", "e">>
P_reset == <<"/", "r", "e", "s", "e", "t", "-", "p", "a", "s", "s", "w", "o", "r", "d">>
P_resetConfirm == P_reset \o <<"/", "c", "o", "n", "f", "i", "r", "m">>
P_authSet == <<"/", "a", "p", "i", "/", "a", "u", "t", "h", "/", "s", "e", "t">>
P_signout == <<"/", "a", "p", "i", "/", "a", "u", "t", "h", "/", "s", "i", "g", "n", "o", "u", "t">>
P_recipes == <<"/", "r", "e", "c", "i", "p", "e", "s">>
P_loginx == <<"/", "l", "o", "g", "i", "n", "x">>
P_log == <<"/", "l", "o", "g">>
P_png == <<"/", "a", ".", "p", "n", "g">>

P_profile == <<"/", "p", "r", "o", "f", "i", "l", "e">>

\* the paths the browser requests
Paths ==
    { P_root, P_login, P_signup, P_welcome, P_reset, P_resetConfirm,
      P_authSet, P_signout, P_recipes, P_loginx, P_log, P_png }

-----------------------------------------------------------------------------
\* middleware.ts

\* const publicRoutes = [...]
publicRoutes == << P_login, P_signup, P_welcome, P_reset, P_resetConfirm >>

\* an allow-list matched by equality in place of startsWith
isPublicRoute_Exact(pathname) ==
    \E i \in 1..Len(publicRoutes) : pathname = publicRoutes[i]

\* publicRoutes.some(route => req.nextUrl.pathname.startsWith(route))
isPublicRoute(pathname) ==
    \E i \in 1..Len(publicRoutes) : StartsWith(pathname, publicRoutes[i])

\* config.matcher: the paths the middleware runs on. The pattern is anchored:
\* after the leading "/", the rest must not start with _next/static,
\* _next/image or favicon<any char>ico, and must not end in an image extension.
ImageExtensions ==
    { <<".", "s", "v", "g">>, <<".", "p", "n", "g">>, <<".", "j", "p", "g">>,
      <<".", "j", "p", "e", "g">>, <<".", "g", "i", "f">>, <<".", "w", "e", "b", "p">> }

matcher(pathname) ==
    /\ Len(pathname) >= 1
    /\ pathname[1] = "/"
    /\ LET rest == Tail(pathname) IN
        /\ ~StartsWith(rest, <<"_", "n", "e", "x", "t", "/", "s", "t", "a", "t", "i", "c">>)
        /\ ~StartsWith(rest, <<"_", "n", "e", "x", "t", "/", "i", "m", "a", "g", "e">>)
        /\ ~( /\ Len(rest) >= 11
              /\ SubSeq(rest, 1, 7) = <<"f", "a", "v", "i", "c", "o", "n">>
              /\ SubSeq(rest, 9, 11) = <<"i", "c", "o">> )
        /\ ~\E ext \in ImageExtensions : EndsWith(rest, ext)

-----------------------------------------------------------------------------
\* The identity provider (external): subjects, the user objects it returns,
\* the tokens it issues

Id_u1 == <<"u", "1">>
Id_long == <<"0", "1", "2", "3", "4", "5", "6", "7", "8", "9">>
Subjects == { Id_u1, Id_long }

E_ab == <<"a", "@", "b", ".", "c", "o", "m">>
E_noLocal == <<"@", "b", ".", "c", "o", "m">>
E_noAt == <<"a", "b">>
E_twoAt == <<"a", "@", "b", "@", "c">>
N_al == <<"A", "l">>

\* data.user of the provider: id, email (optional), user_metadata.name (optional)
ProviderUsers ==
    { [id |-> Id_u1, email |-> E_ab, name |-> Undefined],
      [id |-> Id_u1, email |-> E_ab, name |-> N_al],
      [id |-> Id_long, email |-> Undefined, name |-> Undefined],
      [id |-> Id_long, email |-> E_noLocal, name |-> EmptyStr] }

\* every shape of user object, for the checks of the username derivation
AllEmails == { Undefined, EmptyStr, E_ab, E_noLocal, E_noAt, E_twoAt }
AllNames == { Undefined, EmptyStr, N_al }
AllUsers == [id : Subjects, email : AllEmails, name : AllNames]

AccessToken(id) == <<"access">> \o id
RefreshToken(id) == <<"refresh">> \o id
BadToken == <<"bad">>

\* the session cookie: whose session it carries and whether its access token
\* is still valid (fresh) or needs a refresh
NoCookie == [sub |-> Undefined, fresh |-> FALSE]
SessionCookie(id) == [sub |-> id, fresh |-> TRUE]
NoWrite == [set |-> FALSE, value |-> NoCookie]
Write(c) == [set |-> TRUE, value |-> c]

\* what the browser holds after a response that wrote (or did not write) cookies
ApplyCookies(jar, w) == IF w.set THEN w.value ELSE jar

\* supabase.auth.getSession() over the request's cookies, writing to res:
\* a fresh cookie is returned as is; a stale one is refreshed (new cookies are
\* written) or, when the provider rejects the refresh, removed; the call may
\* also throw.
LookupOutcomes(cookie) ==
    IF cookie.sub # Undefined /\ ~cookie.fresh
        THEN {"ok", "rejected", "throws"}
        ELSE {"ok", "throws"}

getSession(cookie, outcome) ==
    IF outcome = "throws" THEN
        [threw |-> TRUE, session |-> Undefined, written |-> NoWrite]
    ELSE IF cookie.sub = Undefined THEN
        [threw |-> FALSE, session |-> Undefined, written |-> NoWrite]
    ELSE IF cookie.fresh THEN
        [threw |-> FALSE, session |-> cookie.sub, written |-> NoWrite]
    ELSE IF outcome = "ok" THEN
        [threw |-> FALSE, session |-> cookie.sub,
         written |-> Write(SessionCookie(cookie.sub))]
    ELSE
        [threw |-> FALSE, session |-> Undefined, written |-> Write(NoCookie)]

\* the subject a token pair belongs to, Undefined when the provider rejects it
TokenSubject(access, refresh) ==
    IF \E s \in Subjects : access = AccessToken(s) /\ refresh = RefreshToken(s)
        THEN CHOOSE s \in Subjects : access = AccessToken(s) /\ refresh = RefreshToken(s)
        ELSE Undefined

-----------------------------------------------------------------------------
\* The prisma User table: rows [id, email, username], id the primary key

HasRow(table, id) == \E i \in 1..Len(table) : table[i].id = id
RowCount(table, id) == Cardinality({ i \in 1..Len(table) : table[i].id = id })

\* prisma.user.create: a second row with the same id violates the primary key
Create(table, row) ==
    IF HasRow(table, row.id)
        THEN [table |-> table, error |-> "duplicate"]
        ELSE [table |-> Append(table, row), error |-> "none"]

\* an update branch that writes the email only
Update_KeepUsername(table, id, data) ==
    [i \in 1..Len(table) |->
        IF table[i].id = id
            THEN [id |-> table[i].id, email |-> data.email, username |-> table[i].username]
            ELSE table[i]]

\* prisma.user.update({ where: { id }, data })
Update(table, id, data) ==
    [i \in 1..Len(table) |->
        IF table[i].id = id
            THEN [id |-> table[i].id, email |-> data.email, username |-> data.username]
            ELSE table[i]]

\* an upsert that always inserts
Upsert_AlwaysCreate(table, id, update, create) == Create(table, create)

\* an upsert that only updates: without a row it does nothing and reports
\* no error
Upsert_UpdateOnly(table, id, update, create) ==
    [table |-> Update(table, id, update), error |-> "none"]

\* prisma.user.upsert({ where: { id }, update, create }): one statement
Upsert(table, id, update, create) ==
    IF HasRow(table, id)
        THEN [table |-> Update(table, id, update), error |-> "none"]
        ELSE Create(table, create)

\* the length of the id prefix of the fallback username: id.slice(0, 8)
SliceLen == 8
UserPrefix == <<"u", "s", "e", "r", "_">>

\* s.slice(0, n)
Slice(s, n) == SubSeq(s, 1, IF Len(s) < n THEN Len(s) ELSE n)

\* s.split('@')[0]: what precedes the first '@', the whole string without one
FirstAt(s) ==
    IF \E i \in 1..Len(s) : s[i] = "@"
        THEN CHOOSE i \in 1..Len(s) : s[i] = "@" /\ \A j \in 1..(i - 1) : s[j] # "@"
        ELSE Len(s) + 1
LocalPart(s) == SubSeq(s, 1, FirstAt(s) - 1)

\* user.email ?? ''
EmailOrEmpty(user) == IF user.email = Undefined THEN EmptyStr ELSE user.email

\* a derivation with ?? in place of ||: an empty name or local part is kept
Username_Nullish(user) ==
    IF user.name # Undefined THEN user.name
    ELSE IF user.email # Undefined THEN LocalPart(user.email)
    ELSE UserPrefix \o Slice(user.id, SliceLen)

\* user.user_metadata?.name || user.email?.split('@')[0] || `user_${user.id.slice(0, 8)}`
Username(user) ==
    IF Truthy(user.name) THEN user.name
    ELSE IF user.email # Undefined /\ LocalPart(user.email) # EmptyStr
        THEN LocalPart(user.email)
    ELSE UserPrefix \o Slice(user.id, SliceLen)

\* the upsert both sync routes issue for data.user
SyncUpsert(table, user) ==
    Upsert(table, user.id,
           [email |-> EmailOrEmpty(user), username |-> Username(user)],
           [id |-> user.id, email |-> EmailOrEmpty(user), username |-> Username(user)])

-----------------------------------------------------------------------------
\* Requests, responses and the records of what the handlers did

NoBody == [kind |-> "none", access_token |-> Undefined, refresh_token |-> Undefined]
JsonBody(a, r) == [kind |-> "object", access_token |-> a, refresh_token |-> r]

\* the bodies a client may POST to /api/auth/set: not JSON, JSON null, and
\* objects whose tokens are absent, empty, rejected, mismatched or valid
Bodies ==
    { [kind |-> "unparsable", access_token |-> Undefined, refresh_token |-> Undefined],
      [kind |-> "null", access_token |-> Undefined, refresh_token |-> Undefined],
      JsonBody(Undefined, Undefined),
      JsonBody(EmptyStr, RefreshToken(Id_u1)),
      JsonBody(Undefined, RefreshToken(Id_u1)),
      JsonBody(AccessToken(Id_u1), EmptyStr),
      JsonBody(AccessToken(Id_u1), Undefined),
      JsonBody(BadToken, BadToken),
      JsonBody(AccessToken(Id_u1), RefreshToken(Id_long)) }
    \cup { JsonBody(AccessToken(s), RefreshToken(s)) : s \in Subjects }

\* the ?code= parameter of GET /auth/welcome
Codes == { Undefined, EmptyStr, <<"c">> }

NoUser == [id |-> Undefined, email |-> Undefined, name |-> Undefined]

NoRequest ==
    [stage |-> "none", path |-> P_root, method |-> "GET", body |-> NoBody,
     code |-> Undefined, origin |-> "nav", mw |-> NoWrite]

NewRequest(path, method, body, code, origin) ==
    [stage |-> "sent", path |-> path, method |-> method, body |-> body,
     code |-> code, origin |-> origin, mw |-> NoWrite]

NoResponse ==
    [origin |-> "nav", from |-> "none", status |-> 0, location |-> Undefined,
     ok |-> FALSE, written |-> NoWrite]

NoGate ==
    [ran |-> FALSE, path |-> P_root, lookups |-> 0, lookup |-> "ok", threw |-> FALSE,
     session |-> Undefined, outcome |-> "none", written |-> NoWrite,
     carried |-> NoWrite]

NoSync ==
    [handler |-> "none", status |-> 0, ok |-> FALSE, providerCalls |-> 0,
     providerResult |-> "none", upsertCalls |-> 0, upsertError |-> "none",
     user |-> NoUser, written |-> NoWrite, before |-> <<>>]

NoLogin ==
    [pc |-> "idle", loading |-> FALSE, error |-> "none", navigated |-> FALSE,
     noCookieAtStart |-> FALSE, signin |-> "none", fetch |-> "none"]

\* a sync request not yet received
NoProc ==
    [pc |-> "idle", route |-> "none", user |-> NoUser, status |-> 0,
     ok |-> FALSE, upsertError |-> "none"]

\* what has happened so far: who created which row, whose upsert failed
NoHist == [created |-> {}, failed |-> {}]

\* the server-render adapter's setAll not called
NoAdapter ==
    [called |-> FALSE, allowed |-> FALSE, threw |-> FALSE, logged |-> FALSE,
     before |-> NoCookie, after |-> NoCookie]

\* process.env as deployed, and what the configuration led to
U_supabase == <<"s", "b">>
K_anon == <<"k">>
U_site == <<"h">>
FullEnv ==
    [supabaseUrl |-> U_supabase, anonKey |-> K_anon, siteUrl |-> U_site,
     base |-> Undefined]

\* AuthProvider after its first render and its effect: user null, loading
\* true, getSession called, the listener subscribed
NoAuth ==
    [provider |-> Undefined, fetch |-> "pending", fetched |-> Undefined,
     queue |-> <<>>, user |-> Undefined, loading |-> TRUE]

Init ==
    /\ env = FullEnv
    /\ auth = NoAuth
    /\ procs = [p \in {1, 2} |-> NoProc]
    /\ hist = NoHist
    /\ adapter = NoAdapter
    /\ recipes = <<>>
    /\ cookies = NoCookie
    /\ users = <<>>
    /\ req = NoRequest
    /\ resp = NoResponse
    /\ gate = NoGate
    /\ sync = NoSync
    /\ login = NoLogin

-----------------------------------------------------------------------------
\* The browser

\* a new request leaves the records of the previous one behind
Issue(r) ==
    /\ req' = r
    /\ resp' = NoResponse
    /\ gate' = NoGate
    /\ sync' = NoSync

\* the browser loads a path (GET); /auth/welcome may carry a code. Loading a
\* page discards the state of the page's components.
Navigate(path, code) ==
    /\ req.stage \in {"none", "done"}
    /\ login.pc = "idle"
    /\ code # Undefined => path = P_welcome
    /\ Issue(NewRequest(path, "GET", NoBody, code, "nav"))
    /\ login' = NoLogin
    /\ UNCHANGED <<cookies, users>>
    /\ UNCHANGED side
    /\ UNCHANGED outer

\* a client other than the login page POSTs a body to /api/auth/set
PostAuthSet(body) ==
    /\ req.stage \in {"none", "done"}
    /\ login.pc = "idle"
    /\ Issue(NewRequest(P_authSet, "POST", body, Undefined, "post"))
    /\ login' = NoLogin
    /\ UNCHANGED <<cookies, users>>
    /\ UNCHANGED side
    /\ UNCHANGED outer

\* the profile page's sign-out form POSTs to /api/auth/signout
PostSignout ==
    /\ req.stage \in {"none", "done"}
    /\ login.pc = "idle"
    /\ Issue(NewRequest(P_signout, "POST", NoBody, Undefined, "nav"))
    /\ login' = NoLogin
    /\ UNCHANGED <<cookies, users>>
    /\ UNCHANGED side
    /\ UNCHANGED outer

\* time passes: the access token of the cookie session expires
Expire ==
    /\ req.stage \in {"none", "done"}
    /\ cookies.sub # Undefined
    /\ cookies.fresh
    /\ cookies' = [cookies EXCEPT !.fresh = FALSE]
    /\ UNCHANGED <<users, req, resp, gate, sync, login>>
    /\ UNCHANGED side
    /\ UNCHANGED outer

-----------------------------------------------------------------------------
\* middleware.ts: the Access Gate

\* a gate whose first rule lost the negation of isPublicRoute
GateDecision_PublicNotNegated(session, pathname) ==
    IF session = Undefined /\ isPublicRoute(pathname) THEN "redirect_login"
    ELSE IF session # Undefined /\ (pathname = P_login \/ pathname = P_signup)
        THEN "redirect_home"
    ELSE "allow"

\* a gate whose second rule forgot /signup
GateDecision_LoginOnly(session, pathname) ==
    IF session = Undefined /\ ~isPublicRoute(pathname) THEN "redirect_login"
    ELSE IF session # Undefined /\ pathname = P_login THEN "redirect_home"
    ELSE "allow"

\* a gate that keeps a list of subjects and lets only the first one in
GateDecision_BySubject(session, pathname) ==
    IF (session = Undefined \/ session = Id_long) /\ ~isPublicRoute(pathname)
        THEN "redirect_login"
    ELSE IF session # Undefined /\ (pathname = P_login \/ pathname = P_signup)
        THEN "redirect_home"
    ELSE "allow"

\* the two redirect rules and the pass-through, in the code's order
GateDecision(session, pathname) ==
    IF session = Undefined /\ ~isPublicRoute(pathname) THEN "redirect_login"
    ELSE IF session # Undefined /\ (pathname = P_login \/ pathname = P_signup)
        THEN "redirect_home"
    ELSE "allow"

\* the response of the middleware to the browser when it does not pass the
\* request on: a new redirect response, or the error of an uncaught exception
GateResponse(origin, outcome) ==
    [origin |-> origin, from |-> "middleware",
     status |-> IF outcome = "error" THEN 500 ELSE 307,
     location |-> IF outcome = "redirect_login" THEN P_login
                  ELSE IF outcome = "redirect_home" THEN P_root ELSE Undefined,
     ok |-> FALSE, written |-> NoWrite]

\* a gate that returns a new NextResponse.next() in place of res
Carried_NewResponse(outcome, written) == NoWrite

\* a gate that copies res's cookies onto its redirects
Carried_OnRedirects(outcome, written) == IF outcome = "error" THEN NoWrite ELSE written

\* the cookies on the response the gate returns: only the pass-through
\* response res holds what the lookup wrote, a redirect is a new response
Carried(outcome, written) == IF outcome = "allow" THEN written ELSE NoWrite

\* one run of the middleware over a path and the request's cookies
GateRun(pathname, cookie, lookup) ==
    LET r == getSession(cookie, lookup)
        outcome == IF r.threw THEN "error" ELSE GateDecision(r.session, pathname)
    IN [ran |-> TRUE, path |-> pathname, lookups |-> 1, lookup |-> lookup,
        threw |-> r.threw, session |-> r.session, outcome |-> outcome,
        written |-> r.written, carried |-> Carried(outcome, r.written)]

middleware(lookup) ==
    /\ req.stage = "sent"
    /\ matcher(req.path)
    /\ lookup \in LookupOutcomes(cookies)
    /\ LET g == GateRun(req.path, cookies, lookup)
           outcome == g.outcome
           carried == g.carried
       IN
        /\ gate' = g
        /\ IF outcome = "allow" THEN
                /\ req' = [req EXCEPT !.stage = "routed", !.mw = carried]
                /\ UNCHANGED resp
           ELSE IF outcome \in {"redirect_login", "redirect_home"} /\ req.origin = "login" THEN
                \* fetch follows the 307 with the same method and body
                /\ req' = NewRequest(IF outcome = "redirect_login" THEN P_login ELSE P_root,
                                     req.method, req.body, Undefined, req.origin)
                /\ resp' = GateResponse(req.origin, outcome)
           ELSE
                /\ req' = [req EXCEPT !.stage = "done"]
                /\ resp' = GateResponse(req.origin, outcome)
    /\ UNCHANGED <<cookies, users, sync, login>>
    /\ UNCHANGED side
    /\ UNCHANGED outer

\* a path the matcher excludes goes to the router without the gate
Bypass ==
    /\ req.stage = "sent"
    /\ ~matcher(req.path)
    /\ req' = [req EXCEPT !.stage = "routed"]
    /\ UNCHANGED <<cookies, users, resp, gate, sync, login>>
    /\ UNCHANGED side
    /\ UNCHANGED outer

-----------------------------------------------------------------------------
\* The route handlers. Each computes what it did (a record, with the table it
\* leaves) from the request, the provider's answer and the database's state.

\* the upsert inside try/catch of both sync routes: a failure is logged only
TryUpsert(table, user, db) ==
    IF db = "down"
        THEN [table |-> table, error |-> "unavailable"]
        ELSE SyncUpsert(table, user)

\* a handler that validates the access token only
AuthSetHandler_AccessOnly(body, table, provider, user, db) ==
    LET parsed == IF body.kind = "object" THEN body ELSE JsonBody(Undefined, Undefined)
        base == [NoSync EXCEPT !.handler = "authSet", !.before = table]
    IN
    IF ~Truthy(parsed.access_token) THEN
        [did |-> [base EXCEPT !.status = 400], table |-> table]
    ELSE IF provider # "ok" THEN
        [did |-> [base EXCEPT !.status = 500, !.providerCalls = 1,
                              !.providerResult = provider],
         table |-> table]
    ELSE
        LET up == TryUpsert(table, user, db) IN
        [did |-> [base EXCEPT !.status = 200, !.ok = TRUE, !.providerCalls = 1,
                              !.providerResult = "ok", !.user = user,
                              !.upsertCalls = 1, !.upsertError = up.error,
                              !.written = Write(SessionCookie(user.id))],
         table |-> up.table]

\* a handler that logs the provider's error and goes on: data.user is null, so
\* nothing is upserted, and res ({ ok: true }) is returned
AuthSetHandler_ErrorNotReturned(body, table, provider, user, db) ==
    LET parsed == IF body.kind = "object" THEN body ELSE JsonBody(Undefined, Undefined)
        base == [NoSync EXCEPT !.handler = "authSet", !.before = table]
    IN
    IF ~Truthy(parsed.access_token) \/ ~Truthy(parsed.refresh_token) THEN
        [did |-> [base EXCEPT !.status = 400], table |-> table]
    ELSE IF provider = "throws" THEN
        [did |-> [base EXCEPT !.status = 500, !.providerCalls = 1,
                              !.providerResult = provider],
         table |-> table]
    ELSE IF provider = "error" THEN
        [did |-> [base EXCEPT !.status = 200, !.ok = TRUE, !.providerCalls = 1,
                              !.providerResult = provider],
         table |-> table]
    ELSE
        LET up == TryUpsert(table, user, db) IN
        [did |-> [base EXCEPT !.status = 200, !.ok = TRUE, !.providerCalls = 1,
                              !.providerResult = "ok", !.user = user,
                              !.upsertCalls = 1, !.upsertError = up.error,
                              !.written = Write(SessionCookie(user.id))],
         table |-> up.table]

\* a handler whose upsert is not wrapped in its own try/catch: a failure
\* reaches the outer catch, which answers 500 with a new response
AuthSetHandler_UpsertNotCaught(body, table, provider, user, db) ==
    LET parsed == IF body.kind = "object" THEN body ELSE JsonBody(Undefined, Undefined)
        base == [NoSync EXCEPT !.handler = "authSet", !.before = table]
    IN
    IF ~Truthy(parsed.access_token) \/ ~Truthy(parsed.refresh_token) THEN
        [did |-> [base EXCEPT !.status = 400], table |-> table]
    ELSE IF provider # "ok" THEN
        [did |-> [base EXCEPT !.status = 500, !.providerCalls = 1,
                              !.providerResult = provider],
         table |-> table]
    ELSE
        LET up == TryUpsert(table, user, db) IN
        IF up.error # "none" THEN
            [did |-> [base EXCEPT !.status = 500, !.providerCalls = 1,
                                  !.providerResult = "ok", !.user = user,
                                  !.upsertCalls = 1, !.upsertError = up.error],
             table |-> up.table]
        ELSE
            [did |-> [base EXCEPT !.status = 200, !.ok = TRUE, !.providerCalls = 1,
                                  !.providerResult = "ok", !.user = user,
                                  !.upsertCalls = 1, !.upsertError = up.error,
                                  !.written = Write(SessionCookie(user.id))],
             table |-> up.table]

\* a handler that tries a failed upsert a second time
AuthSetHandler_RetryUpsert(body, table, provider, user, db) ==
    LET parsed == IF body.kind = "object" THEN body ELSE JsonBody(Undefined, Undefined)
        base == [NoSync EXCEPT !.handler = "authSet", !.before = table]
    IN
    IF ~Truthy(parsed.access_token) \/ ~Truthy(parsed.refresh_token) THEN
        [did |-> [base EXCEPT !.status = 400], table |-> table]
    ELSE IF provider # "ok" THEN
        [did |-> [base EXCEPT !.status = 500, !.providerCalls = 1,
                              !.providerResult = provider],
         table |-> table]
    ELSE
        LET up == TryUpsert(table, user, db) IN
        [did |-> [base EXCEPT !.status = 200, !.ok = TRUE, !.providerCalls = 1,
                              !.providerResult = "ok", !.user = user,
                              !.upsertCalls = IF up.error = "none" THEN 1 ELSE 2,
                              !.upsertError = up.error,
                              !.written = Write(SessionCookie(user.id))],
         table |-> up.table]

\* src/app/api/auth/set/route.ts POST
AuthSetHandler(body, table, provider, user, db) ==
    LET parsed == IF body.kind = "object" THEN body ELSE JsonBody(Undefined, Undefined)
        base == [NoSync EXCEPT !.handler = "authSet", !.before = table]
    IN
    IF ~Truthy(parsed.access_token) \/ ~Truthy(parsed.refresh_token) THEN
        [did |-> [base EXCEPT !.status = 400], table |-> table]
    ELSE IF provider # "ok" THEN
        \* error returned (line 22) or exception caught by the outer catch (line 50)
        [did |-> [base EXCEPT !.status = 500, !.providerCalls = 1,
                              !.providerResult = provider],
         table |-> table]
    ELSE
        LET up == TryUpsert(table, user, db) IN
        [did |-> [base EXCEPT !.status = 200, !.ok = TRUE, !.providerCalls = 1,
                              !.providerResult = "ok", !.user = user,
                              !.upsertCalls = 1, !.upsertError = up.error,
                              !.written = Write(SessionCookie(user.id))],
         table |-> up.table]

\* a callback that calls the provider whether or not a code came with the
\* request, and goes on when the exchange returns no user
WelcomeHandler_NoCodeCheck(code, table, provider, user, db) ==
    LET base == [NoSync EXCEPT !.handler = "welcome", !.before = table]
    IN
    IF provider = "throws" THEN
        [did |-> [base EXCEPT !.status = 500, !.providerCalls = 1,
                              !.providerResult = provider],
         table |-> table]
    ELSE IF provider = "error" THEN
        [did |-> [base EXCEPT !.status = 307, !.providerCalls = 1,
                              !.providerResult = provider],
         table |-> table]
    ELSE
        LET up == IF user = NoUser
                    THEN [table |-> table, error |-> "none"]
                    ELSE TryUpsert(table, user, db) IN
        [did |-> [base EXCEPT !.status = 302, !.ok = TRUE, !.providerCalls = 1,
                              !.providerResult = provider, !.user = user,
                              !.upsertCalls = 1, !.upsertError = up.error,
                              !.written = IF user = NoUser THEN NoWrite
                                          ELSE Write(SessionCookie(user.id))],
         table |-> up.table]

\* a callback that answers with NextResponse.redirect, a response that does
\* not hold the cookies written to res, and sends a failed upsert to /login
WelcomeHandler_FreshRedirect(code, table, provider, user, db) ==
    LET base == [NoSync EXCEPT !.handler = "welcome", !.before = table]
    IN
    IF ~Truthy(code) THEN
        [did |-> [base EXCEPT !.status = 307], table |-> table]
    ELSE IF provider = "throws" THEN
        [did |-> [base EXCEPT !.status = 500, !.providerCalls = 1,
                              !.providerResult = provider],
         table |-> table]
    ELSE IF provider # "ok" THEN
        [did |-> [base EXCEPT !.status = 307, !.providerCalls = 1,
                              !.providerResult = provider],
         table |-> table]
    ELSE
        LET up == TryUpsert(table, user, db) IN
        [did |-> [base EXCEPT !.status = IF up.error = "none" THEN 302 ELSE 307,
                              !.ok = TRUE, !.providerCalls = 1,
                              !.providerResult = "ok", !.user = user,
                              !.upsertCalls = 1, !.upsertError = up.error],
         table |-> up.table]

\* src/app/auth/welcome/route.ts GET
WelcomeHandler(code, table, provider, user, db) ==
    LET base == [NoSync EXCEPT !.handler = "welcome", !.before = table]
    IN
    IF ~Truthy(code) THEN
        [did |-> [base EXCEPT !.status = 307], table |-> table]
    ELSE IF provider = "throws" THEN
        \* exchangeCodeForSession is awaited outside any try/catch
        [did |-> [base EXCEPT !.status = 500, !.providerCalls = 1,
                              !.providerResult = provider],
         table |-> table]
    ELSE IF provider # "ok" THEN
        \* error || !data.user (line 36)
        [did |-> [base EXCEPT !.status = 307, !.providerCalls = 1,
                              !.providerResult = provider],
         table |-> table]
    ELSE
        LET up == TryUpsert(table, user, db) IN
        [did |-> [base EXCEPT !.status = 302, !.ok = TRUE, !.providerCalls = 1,
                              !.providerResult = "ok", !.user = user,
                              !.upsertCalls = 1, !.upsertError = up.error,
                              !.written = Write(SessionCookie(user.id))],
         table |-> up.table]

\* src/app/api/auth/signout/route.ts POST
SignoutHandler(table, provider) ==
    LET base == [NoSync EXCEPT !.handler = "signout", !.before = table,
                               !.providerCalls = 1, !.providerResult = provider]
    IN
    IF provider = "throws" THEN [base EXCEPT !.status = 500]
    ELSE IF provider = "error" THEN [base EXCEPT !.status = 307]
    ELSE [base EXCEPT !.status = 307, !.ok = TRUE, !.written = Write(NoCookie)]

\* where a response sends the browser
HandlerLocation(did) ==
    IF did.handler = "welcome" /\ did.status = 302 THEN P_root
    ELSE IF did.status = 307 THEN P_login
    \* redirect(...) of a server action
    ELSE IF did.status = 303 /\ ~did.ok THEN P_login
    ELSE IF did.status = 303 /\ did.handler = "updateProfile" THEN P_profile
    ELSE IF did.status = 303 /\ did.handler = "createRecipe" THEN P_recipes
    ELSE Undefined

\* the browser receives the handler's response; the cookies the middleware put
\* on its pass-through response travel with it
Respond(did) ==
    /\ sync' = did
    /\ resp' = [origin |-> req.origin, from |-> did.handler, status |-> did.status,
                location |-> HandlerLocation(did), ok |-> did.ok,
                written |-> did.written]
    /\ cookies' = ApplyCookies(ApplyCookies(cookies, req.mw), did.written)
    /\ req' = [req EXCEPT !.stage = "done"]

\* the provider accepts a request only for a user it knows; "nouser" is an
\* answer without an error and without a user
ProviderAnswer(provider, user, subject) ==
    /\ provider \in {"ok", "error", "throws", "nouser"}
    /\ IF provider = "ok"
        THEN user \in ProviderUsers /\ (subject # Undefined => user.id = subject)
        ELSE user = NoUser

AuthSetPOST(provider, user, db) ==
    /\ req.stage = "routed"
    /\ req.path = P_authSet
    /\ req.method = "POST"
    /\ ProviderAnswer(provider, user, TokenSubject(req.body.access_token, req.body.refresh_token))
    /\ provider = "ok" => TokenSubject(req.body.access_token, req.body.refresh_token) # Undefined
    /\ LET r == AuthSetHandler(req.body, users, provider, user, db) IN
        /\ users' = r.table
        /\ Respond(r.did)
    /\ UNCHANGED <<gate, login>>
    /\ UNCHANGED side
    /\ UNCHANGED outer

WelcomeGET(provider, user, db) ==
    /\ req.stage = "routed"
    /\ req.path = P_welcome
    /\ req.method = "GET"
    /\ ProviderAnswer(provider, user, Undefined)
    /\ LET r == WelcomeHandler(req.code, users, provider, user, db) IN
        /\ users' = r.table
        /\ Respond(r.did)
    /\ UNCHANGED <<gate, login>>
    /\ UNCHANGED side
    /\ UNCHANGED outer

SignoutPOST(provider) ==
    /\ req.stage = "routed"
    /\ req.path = P_signout
    /\ req.method = "POST"
    /\ provider \in {"ok", "error", "throws"}
    /\ Respond(SignoutHandler(users, provider))
    /\ UNCHANGED <<users, gate, login>>
    /\ UNCHANGED side
    /\ UNCHANGED outer

\* every other route: a page, an asset, or the framework's answer to a method
\* the route does not export
Serve(status) ==
    /\ req.stage = "routed"
    /\ ~(req.path = P_authSet /\ req.method = "POST")
    /\ ~(req.path = P_welcome /\ req.method = "GET")
    /\ ~(req.path = P_signout /\ req.method = "POST")
    /\ status \in {200, 405}
    /\ req.method = "GET" => status = 200
    /\ Respond([NoSync EXCEPT !.handler = "page", !.status = status, !.before = users])
    /\ UNCHANGED <<users, gate, login>>
    /\ UNCHANGED side
    /\ UNCHANGED outer

-----------------------------------------------------------------------------
\* src/app/login/page.tsx handleLogin

RespOk(r) == r.status >= 200 /\ r.status <= 299

\* signInWithPassword resolves; with a session the tokens are POSTed.
\* Whether the browser client's own storage is readable by the server is not
\* decided by this repository: both are possible (storesCookie).
LoginSubmit(outcome, s, storesCookie) ==
    /\ req.stage \in {"none", "done"}
    /\ login.pc = "idle"
    /\ outcome \in {"error", "session", "nosession", "throws"}
    \* s and storesCookie matter only when a session is returned
    /\ outcome # "session" => (s = Id_u1 /\ ~storesCookie)
    /\ IF outcome = "session" THEN
            /\ cookies' = IF storesCookie THEN SessionCookie(s) ELSE cookies
            /\ Issue(NewRequest(P_authSet, "POST",
                                JsonBody(AccessToken(s), RefreshToken(s)),
                                Undefined, "login"))
            /\ login' = [pc |-> "awaitSync", loading |-> TRUE, error |-> "none",
                         navigated |-> FALSE, noCookieAtStart |-> cookies = NoCookie,
                         signin |-> outcome, fetch |-> "pending"]
       ELSE
            /\ login' = [pc |-> "idle", loading |-> FALSE,
                         error |-> IF outcome = "error" THEN "signin"
                                   ELSE IF outcome = "throws" THEN "unexpected"
                                   ELSE "none",
                         navigated |-> outcome = "nosession",
                         noCookieAtStart |-> FALSE,
                         signin |-> outcome, fetch |-> "none"]
            /\ UNCHANGED <<cookies, req, resp, gate, sync>>
    /\ UNCHANGED users
    /\ UNCHANGED side
    /\ UNCHANGED outer

\* a page that goes on to / whatever the fetch answered
LoginSyncDone_IgnoresStatus ==
    /\ login.pc = "awaitSync"
    /\ req.stage = "done"
    /\ req.origin = "login"
    /\ login' = [login EXCEPT !.pc = "idle", !.loading = FALSE,
                              !.error = "none",
                              !.navigated = TRUE,
                              !.fetch = IF RespOk(resp) THEN "ok" ELSE "notok"]
    /\ UNCHANGED <<cookies, users, req, resp, gate, sync>>
    /\ UNCHANGED side
    /\ UNCHANGED outer

\* the fetch of /api/auth/set resolves
LoginSyncDone ==
    /\ login.pc = "awaitSync"
    /\ req.stage = "done"
    /\ req.origin = "login"
    /\ login' = [login EXCEPT !.pc = "idle", !.loading = FALSE,
                              !.error = IF RespOk(resp) THEN "none" ELSE "sync",
                              !.navigated = RespOk(resp),
                              !.fetch = IF RespOk(resp) THEN "ok" ELSE "notok"]
    /\ UNCHANGED <<cookies, users, req, resp, gate, sync>>
    /\ UNCHANGED side
    /\ UNCHANGED outer

\* the fetch rejects (the request never reached the server): the catch block
\* and then finally
LoginFetchRejects ==
    /\ login.pc = "awaitSync"
    /\ req.stage = "sent"
    /\ req.origin = "login"
    /\ req.path = P_authSet
    /\ req' = [req EXCEPT !.stage = "done"]
    /\ login' = [login EXCEPT !.pc = "idle", !.loading = FALSE,
                              !.error = "unexpected",
                              !.navigated = FALSE,
                              !.fetch = "rejected"]
    /\ UNCHANGED <<cookies, users, resp, gate, sync>>
    /\ UNCHANGED side
    /\ UNCHANGED outer

-----------------------------------------------------------------------------
Next ==
    \/ \E path \in Paths, code \in Codes : Navigate(path, code)
    \/ \E body \in Bodies : PostAuthSet(body)
    \/ PostSignout
    \/ Expire
    \/ \E lookup \in {"ok", "rejected", "throws"} : middleware(lookup)
    \/ Bypass
    \/ \E provider \in {"ok", "error", "throws"}, user \in ProviderUsers \cup {NoUser},
          db \in {"up", "down"} : AuthSetPOST(provider, user, db)
    \/ \E provider \in {"ok", "error", "throws", "nouser"},
          user \in ProviderUsers \cup {NoUser},
          db \in {"up", "down"} : WelcomeGET(provider, user, db)
    \/ \E provider \in {"ok", "error", "throws"} : SignoutPOST(provider)
    \/ \E status \in {200, 405} : Serve(status)
    \/ \E outcome \in {"error", "session", "nosession", "throws"}, s \in Subjects,
          storesCookie \in BOOLEAN : LoginSubmit(outcome, s, storesCookie)
    \/ LoginSyncDone
    \/ LoginFetchRejects

Spec == Init /\ [][Next]_vars

-----------------------------------------------------------------------------
\* The Access Gate's contract

\* C1: a request the middleware processed whose session lookup returned no
\* session and whose path is not public was answered by a redirect to /login
\* and was not passed on.
C1_AnonymousNonPublicRedirected ==
    (gate.ran /\ ~gate.threw /\ gate.session = Undefined /\ ~isPublicRoute(gate.path))
        => /\ gate.outcome = "redirect_login"
           /\ resp.from = "middleware"
           /\ resp.location = P_login
           /\ sync.handler = "none"

C1_Witness ==
    /\ gate.ran /\ ~gate.threw /\ gate.session = Undefined
    /\ gate.path = P_recipes
    /\ gate.outcome = "redirect_login"
    /\ req.stage = "done"

\* C2: the gate allows every request to /auth/welcome, /api/auth/set and
\* /api/auth/signout, with or without a session.
AuthPaths == { P_welcome, P_authSet, P_signout }

C2_AuthPathsAlwaysAllowed ==
    (gate.ran /\ ~gate.threw /\ gate.path \in AuthPaths) => gate.outcome = "allow"

\* C3: when the session lookup throws, a non-public path is answered by a
\* redirect to /login, as without a session, and not by an unhandled error.
C3_LookupThrowFailsClosed ==
    (gate.ran /\ gate.threw /\ ~isPublicRoute(gate.path))
        => gate.outcome = "redirect_login" /\ resp.status # 500

\* C4: a request to /login or /signup whose lookup returned a session was
\* answered by a redirect to /.
C4_SignedInLoginRedirectedHome ==
    (gate.ran /\ ~gate.threw /\ gate.session # Undefined
        /\ gate.path \in { P_login, P_signup })
        => /\ gate.outcome = "redirect_home"
           /\ resp.from = "middleware"
           /\ resp.location = P_root

C4_Witness ==
    /\ gate.ran /\ gate.session = Id_u1
    /\ gate.path = P_signup
    /\ gate.outcome = "redirect_home"
    /\ resp.location = P_root

\* C5: the token POST of a sign-in started without server-readable cookies is
\* answered by the Session Sync Endpoint, which on the provider's acceptance
\* leaves the browser with the session cookie and the table with the profile row.
C5_LoginSyncReachesEndpoint ==
    (login.pc = "awaitSync" /\ login.noCookieAtStart /\ req.stage = "done"
        /\ ~gate.threw)
        => /\ resp.from = "authSet"
           /\ (sync.providerResult = "ok" /\ sync.upsertError = "none"
                => cookies.sub = sync.user.id /\ HasRow(users, sync.user.id))

-----------------------------------------------------------------------------
\* The Session Sync Endpoint's contract

\* a body without both tokens: not JSON, not an object, or a token absent or empty
MissingTokens(body) ==
    \/ body.kind # "object"
    \/ body.access_token \in { Undefined, EmptyStr }
    \/ body.refresh_token \in { Undefined, EmptyStr }

\* C6: POST /api/auth/set without both tokens answers 400 and does nothing
\* else: no provider call, no cookie, no upsert, the table as it was.
C6_MissingTokensRejected ==
    (sync.handler = "authSet" /\ MissingTokens(req.body))
        => /\ sync.status = 400 /\ resp.status = 400
           /\ sync.providerCalls = 0
           /\ sync.upsertCalls = 0
           /\ sync.written = NoWrite /\ resp.written = NoWrite
           /\ users = sync.before

C6_Witness ==
    /\ sync.handler = "authSet"
    /\ req.body = JsonBody(EmptyStr, RefreshToken(Id_u1))
    /\ sync.status = 400
    /\ Len(users) > 0

\* C7: when the provider rejects the token pair, POST /api/auth/set answers 500
\* without attempting the upsert: the table is as it was, no cookie is sent.
C7_ProviderRejectionIs500 ==
    (sync.handler = "authSet" /\ sync.providerResult = "error")
        => /\ sync.status = 500 /\ resp.status = 500
           /\ sync.upsertCalls = 0
           /\ users = sync.before
           /\ resp.written = NoWrite

C7_Witness ==
    /\ sync.handler = "authSet"
    /\ sync.providerResult = "error"
    /\ req.body = JsonBody(BadToken, BadToken)
    /\ sync.status = 500

\* C8: when the session is adopted and the upsert fails, POST /api/auth/set
\* still answers { ok: true } with the session cookies of the adoption.
C8_UpsertFailureStillSucceeds ==
    (sync.handler = "authSet" /\ sync.providerResult = "ok" /\ sync.upsertError # "none")
        => /\ sync.status = 200 /\ resp.status = 200
           /\ resp.ok
           /\ resp.written = Write(SessionCookie(sync.user.id))
           /\ cookies.sub = sync.user.id
           /\ users = sync.before

C8_Witness ==
    /\ sync.handler = "authSet"
    /\ sync.providerResult = "ok"
    /\ sync.upsertError = "unavailable"
    /\ resp.ok
    /\ cookies.sub = sync.user.id

-----------------------------------------------------------------------------
\* The profile upsert on its own: the two sync routes applied to the table for
\* every shape of user object the provider may return

\* one sync request the provider accepts, through either route
SyncResult(route, table, user) ==
    IF route = "authSet"
        THEN AuthSetHandler(JsonBody(AccessToken(user.id), RefreshToken(user.id)),
                            table, "ok", user, "up")
        ELSE WelcomeHandler(<<"c">>, table, "ok", user, "up")

SyncOnce(route, user) ==
    /\ LET r == SyncResult(route, users, user) IN
        /\ users' = r.table
        /\ sync' = r.did
    /\ UNCHANGED <<cookies, req, resp, gate, login>>
    /\ UNCHANGED side
    /\ UNCHANGED outer

\* the same sync request twice in a row
SyncTwice(route, user) ==
    /\ LET first == SyncResult(route, users, user)
           second == SyncResult(route, first.table, user)
       IN
        /\ users' = second.table
        /\ sync' = [second.did EXCEPT !.providerCalls = 2, !.upsertCalls = 2]
    /\ UNCHANGED <<cookies, req, resp, gate, login>>
    /\ UNCHANGED side
    /\ UNCHANGED outer

NextUpsert ==
    \/ \E route \in {"authSet", "welcome"}, user \in AllUsers : SyncOnce(route, user)
    \/ \E route \in {"authSet", "welcome"}, user \in AllUsers : SyncTwice(route, user)

SpecUpsert == Init /\ [][NextUpsert]_vars

\* the row of the table with the given id
RowOf(table, id) == table[CHOOSE i \in 1..Len(table) : table[i].id = id]

\* the part of an e-mail before its first '@': the prefix without '@' that is
\* the whole e-mail or is followed by '@'
BeforeAt(email) ==
    LET n == CHOOSE k \in 0..Len(email) :
                /\ \A j \in 1..k : email[j] # "@"
                /\ (k = Len(email) \/ email[k + 1] = "@")
    IN SubSeq(email, 1, n)

C10_UpsertIdempotent ==
    sync.upsertCalls = 2 =>
        /\ sync.upsertError = "none"
        /\ users = sync.before
        /\ RowCount(users, sync.user.id) = 1
        /\ RowOf(users, sync.user.id).email = EmailOrEmpty(sync.user)

C10_Witness ==
    /\ sync.upsertCalls = 2
    /\ sync.upsertError = "none"
    /\ Len(users) = 2
    /\ RowCount(users, sync.user.id) = 1
    /\ users = sync.before

-----------------------------------------------------------------------------
\* Two sync requests handled at the same time. A handler runs up to its first
\* await (the provider call), then up to its second (the upsert, one statement
\* the database executes on the table as it is then), then returns.

Procs == {1, 2}

\* a sync request passes the gate and reaches its handler
Receive(p, route) ==
    /\ procs[p].pc = "idle"
    /\ route \in {"authSet", "welcome"}
    /\ procs' = [procs EXCEPT ![p] = [NoProc EXCEPT !.pc = "start", !.route = route]]
    /\ UNCHANGED <<cookies, users, req, resp, gate, sync, login, hist, adapter, recipes>>
    /\ UNCHANGED outer

\* the handler as it runs for a process, on the table as it is now
ProcResult(route, table, provider, user, db) ==
    IF route = "authSet"
        THEN AuthSetHandler(JsonBody(AccessToken(Id_u1), RefreshToken(Id_u1)),
                            table, provider, user, db)
        ELSE WelcomeHandler(<<"c">>, table, provider, user, db)

\* setSession / exchangeCodeForSession resolves
Adopt(p, provider, user) ==
    /\ procs[p].pc = "start"
    /\ ProviderAnswer(provider, user, Undefined)
    /\ LET did == ProcResult(procs[p].route, users, provider, user, "up").did IN
        procs' = [procs EXCEPT ![p] =
                    IF provider = "ok"
                        THEN [@ EXCEPT !.pc = "adopted", !.user = user]
                        ELSE [@ EXCEPT !.pc = "done", !.status = did.status,
                                       !.ok = did.ok]]
    /\ UNCHANGED <<cookies, users, req, resp, gate, sync, login, hist, adapter, recipes>>
    /\ UNCHANGED outer

\* prisma.user.upsert resolves and the handler returns its response
UpsertAndReturn(p) ==
    /\ procs[p].pc = "adopted"
    /\ LET r == ProcResult(procs[p].route, users, "ok", procs[p].user, "up") IN
        /\ users' = r.table
        /\ procs' = [procs EXCEPT ![p] =
                        [@ EXCEPT !.pc = "done", !.status = r.did.status,
                                  !.ok = r.did.ok, !.upsertError = r.did.upsertError]]
    /\ UNCHANGED <<cookies, req, resp, gate, sync, login, hist, adapter, recipes>>
    /\ UNCHANGED outer

\* the response is delivered; the process may take another request
Finish(p) ==
    /\ procs[p].pc = "done"
    /\ procs' = [procs EXCEPT ![p] = NoProc]
    /\ UNCHANGED <<cookies, users, req, resp, gate, sync, login, hist, adapter, recipes>>
    /\ UNCHANGED outer

NextRace ==
    \/ \E p \in Procs, route \in {"authSet", "welcome"} : Receive(p, route)
    \/ \E p \in Procs, provider \in {"ok", "error", "throws"},
          user \in ProviderUsers \cup {NoUser} : Adopt(p, provider, user)
    \/ \E p \in Procs : UpsertAndReturn(p)
    \/ \E p \in Procs : Finish(p)

SpecRace == Init /\ [][NextRace]_vars

\* both requests adopted a session of the same subject and have returned
BothSynced(s) ==
    \A p \in Procs : procs[p].pc = "done" /\ procs[p].user.id = s

\* C11: two sync requests for the same subject, interleaved in any way, leave
\* exactly one row with that id, and neither fails on a duplicate key: both
\* upserts succeed and both requests return their success response.
C11_ConcurrentSyncOneRow ==
    \A s \in Subjects :
        BothSynced(s) =>
            /\ RowCount(users, s) = 1
            /\ \A p \in Procs : procs[p].upsertError = "none" /\ procs[p].ok
            /\ \E p \in Procs :
                    /\ RowOf(users, s).username = Username(procs[p].user)
                    /\ RowOf(users, s).email = EmailOrEmpty(procs[p].user)

\* the two requests took different routes and carried different user data
C11_Witness ==
    /\ BothSynced(Id_u1)
    /\ procs[1].route = "authSet" /\ procs[2].route = "welcome"
    /\ procs[1].user # procs[2].user
    /\ RowCount(users, Id_u1) = 1

-----------------------------------------------------------------------------
\* The auth callback and sign-out (specification Spec)

C15_SignoutClearsSession ==
    [][(/\ req.stage = "routed" /\ req.path = P_signout /\ req.method = "POST"
        /\ gate.session # Undefined
        /\ sync'.handler = "signout")
        => /\ resp'.status = 307
           /\ resp'.location = P_login
           /\ resp'.written = Write(NoCookie)
           /\ \A p \in Paths :
                ~isPublicRoute(p) =>
                    \A lookup \in LookupOutcomes(cookies') \ {"throws"} :
                        GateRun(p, cookies', lookup).outcome = "redirect_login"]_vars

\* C16: when neither redirect rule applies, the gate allows the request and
\* the response it returns holds exactly the cookies the session lookup wrote.
C16_PassThroughUnchanged ==
    (gate.ran /\ ~gate.threw
        /\ \/ gate.session = Undefined /\ isPublicRoute(gate.path)
           \/ gate.session # Undefined /\ gate.path # P_login /\ gate.path # P_signup)
        => /\ gate.outcome = "allow"
           /\ gate.carried = gate.written
           /\ req.stage \in {"routed", "done"}
           /\ req.mw = gate.written
           /\ req.stage = "done" => resp.from # "middleware"

\* a refreshed session on a protected page, and the refresh reached the browser
C16_Witness ==
    /\ gate.ran /\ gate.outcome = "allow"
    /\ gate.path = P_recipes
    /\ gate.written = Write(SessionCookie(Id_u1))
    /\ gate.carried = gate.written
    /\ req.stage = "done"
    /\ cookies = SessionCookie(Id_u1)

-----------------------------------------------------------------------------
\* The gate alone, run on more paths than the browser of Spec requests

P_loginSub == P_login \o <<"/", "x">>
P_loginUpper == <<"/", "L", "o", "g", "i", "n">>
P_inner == <<"/", "x">> \o P_login
P_signupQ == P_signup \o <<"2">>
P_auth == <<"/", "a", "u", "t", "h">>
P_welcomeSub == P_welcome \o <<"/", "n", "e", "x", "t">>
P_resetDot == <<"/", "r", "e", "s", "e", "t", ".", "p", "a", "s", "s", "w", "o", "r", "d">>
P_resetConfirmX == P_resetConfirm \o <<"X">>
P_star == <<"/", ".", "*">>
P_noSlash == <<"l", "o", "g", "i", "n">>

GatePaths ==
    Paths \cup { P_loginSub, P_loginUpper, P_inner, P_signupQ, P_auth, P_welcomeSub,
                 P_resetDot, P_resetConfirmX, P_star, P_noSlash }

\* the cookies a request can come with
GateCookies ==
    { NoCookie } \cup { [SessionCookie(s) EXCEPT !.fresh = f] : s \in Subjects, f \in BOOLEAN }

\* one request through the middleware
GateProbe(pathname, cookie, lookup) ==
    /\ lookup \in LookupOutcomes(cookie)
    /\ gate' = GateRun(pathname, cookie, lookup)
    /\ cookies' = cookie
    /\ UNCHANGED <<users, req, resp, sync, login>>
    /\ UNCHANGED side
    /\ UNCHANGED outer

NextGate ==
    \E pathname \in GatePaths, cookie \in GateCookies,
       lookup \in {"ok", "rejected", "throws"} : GateProbe(pathname, cookie, lookup)

SpecGate == Init /\ [][NextGate]_vars

\* p has the characters of e as its first characters
LiteralPrefix(e, p) ==
    /\ Len(e) <= Len(p)
    /\ \A i \in 1..Len(e) : p[i] = e[i]

\* the allow-list as the specification lists it
AllowList == { P_login, P_signup, P_welcome, P_reset, P_resetConfirm }

\* C17: a path is public exactly when one of the five entries is a literal
\* prefix of it: an anonymous request is allowed for such a path and
\* redirected to /login for every other.
C17_PublicIsLiteralPrefix ==
    /\ \A p \in GatePaths : isPublicRoute(p) <=> \E e \in AllowList : LiteralPrefix(e, p)
    /\ (gate.ran /\ ~gate.threw /\ gate.session = Undefined)
        => IF \E e \in AllowList : LiteralPrefix(e, gate.path)
            THEN gate.outcome = "allow"
            ELSE gate.outcome = "redirect_login"

\* an anonymous request for a path that only continues an entry was allowed
C17_Witness ==
    /\ gate.ran /\ ~gate.threw /\ gate.session = Undefined
    /\ gate.path \in { P_loginx, P_loginSub, P_resetConfirmX }
    /\ gate.outcome = "allow"

-----------------------------------------------------------------------------
\* The server flows that touch the database, each as one request of a browser
\* that the gate has let through

\* a setAll without try/catch: the exception of cookieStore.set reaches the caller
ServerSetAll_NoTry(jar, writes, allowed) ==
    [called |-> TRUE, allowed |-> allowed, threw |-> ~allowed, logged |-> FALSE,
     before |-> jar, after |-> IF allowed THEN ApplyCookies(jar, writes) ELSE jar]

\* src/lib/supabaseServer.ts setAll: cookieStore.set throws where cookies
\* cannot be set; the catch block is empty
ServerSetAll(jar, writes, allowed) ==
    [called |-> TRUE, allowed |-> allowed, threw |-> FALSE, logged |-> FALSE,
     before |-> jar, after |-> IF allowed THEN ApplyCookies(jar, writes) ELSE jar]

\* createSupabaseServerClient().auth.getUser(): the lookup, and the adapter's
\* setAll when the client has cookies to write
ServerGetUser(jar, lookup, allowed) ==
    LET r == getSession(jar, lookup)
        a == IF r.written.set THEN ServerSetAll(jar, r.written, allowed) ELSE NoAdapter
    IN [threw |-> r.threw \/ a.threw,
        user |-> r.session,
        adapter |-> a,
        jar |-> IF r.written.set THEN a.after ELSE jar]

\* an update that replaces the row and loses it
ProfileUpdate_DropsRow(table, id, username) ==
    [table |-> SelectSeq(table, LAMBDA row : row.id # id), error |-> "none"]

\* an update without its where clause
ProfileUpdate_AllRows(table, id, username) ==
    [table |-> [i \in 1..Len(table) |-> [table[i] EXCEPT !.username = username]],
     error |-> "none"]

\* prisma.user.update({ where: { id }, data: { username } })
ProfileUpdate(table, id, username) ==
    IF ~HasRow(table, id)
        THEN [table |-> table, error |-> "notfound"]
        ELSE [table |-> [i \in 1..Len(table) |->
                            IF table[i].id = id
                                THEN [table[i] EXCEPT !.username = username]
                                ELSE table[i]],
              error |-> "none"]

P_usersCreate ==
    <<"/", "a", "p", "i", "/", "u", "s", "e", "r", "s", "/", "c", "r", "e", "a", "t", "e">>

\* the JSON bodies POSTed to /api/users/create
UserBodies ==
    { [id |-> Id_long, email |-> E_ab, username |-> Undefined],
      [id |-> Id_u1, email |-> E_ab, username |-> N_al],
      [id |-> Id_u1, email |-> Undefined, username |-> Undefined],
      [id |-> EmptyStr, email |-> E_ab, username |-> Undefined] }

\* POST /api/users/create
UsersCreateHandler(body, table, db) ==
    IF ~Truthy(body.id) \/ ~Truthy(body.email) THEN
        [status |-> 400, table |-> table]
    ELSE IF db = "down" THEN
        [status |-> 500, table |-> table]
    ELSE
        LET kept == IF body.username # Undefined THEN body.username
                    ELSE IF HasRow(table, body.id) THEN RowOf(table, body.id).username
                    ELSE Undefined
            up == Upsert(table, body.id,
                         [email |-> body.email, username |-> kept],
                         [id |-> body.id, email |-> body.email,
                          username |-> Username([id |-> body.id, email |-> body.email,
                                                 name |-> body.username])])
        IN [status |-> IF up.error = "none" THEN 201 ELSE 500, table |-> up.table]

\* the rows a step added, with the subject of the session of its caller
Created(before, after, caller) ==
    { [id |-> after[i].id, caller |-> caller] :
        i \in { j \in 1..Len(after) : ~HasRow(before, after[j].id) } }

\* the most recipes the table holds
MaxRecipes == 1

\* a sign-in: POST /api/auth/set or GET /auth/welcome with an accepted session
StoreSignIn(route, user, db) ==
    /\ route \in {"authSet", "welcome"}
    /\ LET r == ProcResult(route, users, "ok", user, db) IN
        /\ users' = r.table
        /\ sync' = r.did
        /\ cookies' = ApplyCookies(cookies, r.did.written)
        /\ hist' = [created |-> hist.created \cup Created(users, r.table, user.id),
                    failed |-> IF r.did.upsertError # "none"
                                THEN hist.failed \cup {user.id}
                                ELSE hist.failed]
    /\ adapter' = NoAdapter
    /\ UNCHANGED <<req, resp, gate, login, procs, recipes>>
    /\ UNCHANGED outer

\* POST /api/auth/signout
StoreSignOut(provider) ==
    /\ cookies.sub # Undefined
    /\ provider \in {"ok", "error", "throws"}
    /\ LET did == SignoutHandler(users, provider) IN
        /\ sync' = did
        /\ cookies' = ApplyCookies(cookies, did.written)
    /\ adapter' = NoAdapter
    /\ UNCHANGED <<users, req, resp, gate, login, procs, hist, recipes>>
    /\ UNCHANGED outer

\* what a server action did, in the shape of the handlers' records
ActionDid(handler, table, g) ==
    [NoSync EXCEPT !.handler = handler, !.before = table, !.providerCalls = 1,
                   !.providerResult = IF g.threw THEN "throws"
                                      ELSE IF g.user = Undefined THEN "nouser" ELSE "ok",
                   !.user = [NoUser EXCEPT !.id = g.user]]

\* the server action of /profile/edit
updateProfile(lookup, username, db) ==
    /\ cookies.sub # Undefined
    /\ lookup \in LookupOutcomes(cookies)
    /\ LET g == ServerGetUser(cookies, lookup, TRUE)
           base == ActionDid("updateProfile", users, g)
           up == IF db = "down" THEN [table |-> users, error |-> "unavailable"]
                 ELSE ProfileUpdate(users, g.user, username)
       IN
        /\ adapter' = g.adapter
        /\ cookies' = g.jar
        /\ IF g.threw THEN
                \* getUser rejected: the action fails
                users' = users /\ sync' = [base EXCEPT !.status = 500]
           ELSE IF g.user = Undefined THEN
                \* redirect('/login')
                users' = users /\ sync' = [base EXCEPT !.status = 303]
           ELSE
                /\ users' = up.table
                /\ sync' = [base EXCEPT !.status = IF up.error = "none" THEN 303 ELSE 500,
                                        !.ok = up.error = "none",
                                        !.upsertCalls = 1, !.upsertError = up.error]
    /\ UNCHANGED <<req, resp, gate, login, procs, hist, recipes>>
    /\ UNCHANGED outer

\* the titles the form sends; null when the field is absent
Titles == { Undefined, EmptyStr, <<" ">>, <<"t">>, <<" ", "t", " ">> }

\* (formData.get("title") as string)?.trim() || ""
RECURSIVE Trim(_)
Trim(t) ==
    IF t = Undefined \/ t = EmptyStr THEN EmptyStr
    ELSE IF Head(t) = " " THEN Trim(Tail(t))
    ELSE IF t[Len(t)] = " " THEN Trim(SubSeq(t, 1, Len(t) - 1))
    ELSE t

\* an action that stores whatever title the form sent
CreateRecipeRun_NoTitleCheck(recs, table, g, title, db) ==
    LET base == ActionDid("createRecipe", table, g) IN
    IF g.threw THEN [recipes |-> recs, did |-> [base EXCEPT !.status = 500]]
    ELSE IF g.user = Undefined THEN [recipes |-> recs, did |-> [base EXCEPT !.status = 303]]
    ELSE IF db = "down" THEN
        [recipes |-> recs,
         did |-> [base EXCEPT !.status = 500, !.upsertCalls = 1,
                              !.upsertError = "unavailable"]]
    ELSE
        [recipes |-> Append(recs, [title |-> Trim(title), authorId |-> g.user]),
         did |-> [base EXCEPT !.status = 303, !.ok = TRUE, !.upsertCalls = 1]]

\* createRecipe once supabase.auth.getUser() has answered (g)
CreateRecipeRun(recs, table, g, title, db) ==
    LET base == ActionDid("createRecipe", table, g) IN
    IF g.threw THEN [recipes |-> recs, did |-> [base EXCEPT !.status = 500]]
    ELSE IF g.user = Undefined THEN
        \* redirect("/login")
        [recipes |-> recs, did |-> [base EXCEPT !.status = 303]]
    ELSE IF Trim(title) = EmptyStr THEN
        \* throw new Error("Title is required.")
        [recipes |-> recs, did |-> [base EXCEPT !.status = 500, !.upsertError = "title"]]
    ELSE IF db = "down" THEN
        [recipes |-> recs,
         did |-> [base EXCEPT !.status = 500, !.upsertCalls = 1,
                              !.upsertError = "unavailable"]]
    ELSE
        [recipes |-> Append(recs, [title |-> Trim(title), authorId |-> g.user]),
         did |-> [base EXCEPT !.status = 303, !.ok = TRUE, !.upsertCalls = 1]]

\* the server action of the add-recipe page
createRecipe(lookup, title, db) ==
    /\ cookies.sub # Undefined
    /\ lookup \in LookupOutcomes(cookies)
    /\ Len(recipes) < MaxRecipes
    /\ LET g == ServerGetUser(cookies, lookup, TRUE)
           r == CreateRecipeRun(recipes, users, g, title, db)
       IN
        /\ adapter' = g.adapter
        /\ cookies' = g.jar
        /\ recipes' = r.recipes
        /\ sync' = r.did
    /\ UNCHANGED <<users, req, resp, gate, login, procs, hist>>
    /\ UNCHANGED outer

\* POST /api/users/create, which the gate allows with a session only
UsersCreatePOST(body, db) ==
    /\ GateDecision(cookies.sub, P_usersCreate) = "allow"
    /\ LET r == UsersCreateHandler(body, users, db) IN
        /\ users' = r.table
        /\ hist' = [hist EXCEPT !.created = @ \cup Created(users, r.table, cookies.sub)]
    /\ sync' = NoSync
    /\ adapter' = NoAdapter
    /\ UNCHANGED <<cookies, req, resp, gate, login, procs, recipes>>
    /\ UNCHANGED outer

\* a server component (the home page, the profile pages) renders
RenderPage(lookup) ==
    /\ lookup \in LookupOutcomes(cookies)
    /\ LET g == ServerGetUser(cookies, lookup, FALSE) IN
        /\ adapter' = g.adapter
        /\ cookies' = g.jar
    /\ sync' = NoSync
    /\ UNCHANGED <<users, req, resp, gate, login, procs, hist, recipes>>
    /\ UNCHANGED outer

NextStore ==
    \/ \E route \in {"authSet", "welcome"}, user \in ProviderUsers, db \in {"up", "down"} :
          StoreSignIn(route, user, db)
    \/ \E provider \in {"ok", "error", "throws"} : StoreSignOut(provider)
    \/ \E lookup \in {"ok", "rejected", "throws"}, username \in {N_al},
          db \in {"up", "down"} : updateProfile(lookup, username, db)
    \/ \E lookup \in {"ok", "rejected", "throws"}, title \in Titles,
          db \in {"up", "down"} : createRecipe(lookup, title, db)
    \/ \E body \in UserBodies, db \in {"up", "down"} : UsersCreatePOST(body, db)
    \/ \E lookup \in {"ok", "rejected", "throws"} : RenderPage(lookup)
    \/ Expire

SpecStore == Init /\ [][NextStore]_vars

-----------------------------------------------------------------------------
\* The profile table under the server flows (specification SpecStore)

\* C12: every profile row was created by a caller whose session had the row's
\* id as its subject; no flow creates a row under another id.
C12_ProfileIdIsCallerSubject ==
    /\ \A i \in 1..Len(users) : \E c \in hist.created : c.id = users[i].id
    /\ \A c \in hist.created : c.id = c.caller

C19_NextSignInSyncsProfile ==
    (sync.handler \in {"authSet", "welcome"} /\ sync.ok /\ sync.upsertError = "none"
        /\ sync.user.id \in hist.failed)
        => /\ RowCount(users, sync.user.id) = 1
           /\ RowOf(users, sync.user.id) =
                [id |-> sync.user.id, email |-> EmailOrEmpty(sync.user),
                 username |-> Username(sync.user)]

\* the earlier failure had left no row, and this sign-in created it
C19_Witness ==
    /\ sync.handler \in {"authSet", "welcome"} /\ sync.ok /\ sync.upsertError = "none"
    /\ sync.user.id \in hist.failed
    /\ ~HasRow(sync.before, sync.user.id)
    /\ HasRow(users, sync.user.id)

\* C20: no step of a server flow removes a profile row.
C20_RowsNeverDeleted ==
    [][\A i \in 1..Len(users) : HasRow(users', users[i].id)]_vars

\* two profiles, a renamed one among them, a recipe, and a sign-out after them
C20_Witness ==
    /\ HasRow(users, Id_u1) /\ HasRow(users, Id_long)
    /\ \E i \in 1..Len(users) : users[i].email = Undefined \/ users[i].username = N_al
    /\ recipes # <<>>
    /\ sync.handler = "signout" /\ sync.ok
    /\ cookies = NoCookie

-----------------------------------------------------------------------------
\* The environment variables: the callback under every configuration

\* 'http://localhost:3000'
DefaultBase == <<"l", "o", "c", "a", "l", "h", "o", "s", "t">>

\* const BASE = process.env.NEXT_PUBLIC_SITE_URL || 'http://localhost:3000'
BASE(e) == IF Truthy(e.siteUrl) THEN e.siteUrl ELSE DefaultBase

\* every combination of present and missing variables
EnvConfigs ==
    { [FullEnv EXCEPT !.supabaseUrl = a, !.anonKey = b, !.siteUrl = c] :
        a \in {U_supabase, Undefined}, b \in {K_anon, Undefined},
        c \in {U_site, Undefined} }

\* createServerClient(process.env.NEXT_PUBLIC_SUPABASE_URL!, ...ANON_KEY!, ...):
\* the "!" is erased at build time; what the library does with undefined is
\* its own choice (lib)
ClientCreated(e, lib) ==
    (Truthy(e.supabaseUrl) /\ Truthy(e.anonKey)) \/ lib = "accepts"

InitEnv ==
    /\ env \in EnvConfigs
    /\ auth = NoAuth
    /\ procs = [p \in {1, 2} |-> NoProc]
    /\ hist = NoHist
    /\ adapter = NoAdapter
    /\ recipes = <<>>
    /\ cookies = NoCookie
    /\ users = <<>>
    /\ req = NoRequest
    /\ resp = NoResponse
    /\ gate = NoGate
    /\ sync = NoSync
    /\ login = NoLogin

\* GET /auth/welcome under the configuration env
EnvWelcomeGET(code, provider, user, db, lib) ==
    /\ lib \in {"accepts", "throws"}
    /\ ProviderAnswer(provider, user, Undefined)
    \* a client without its URL or key reaches no provider
    /\ ~(Truthy(env.supabaseUrl) /\ Truthy(env.anonKey)) => provider \in {"error", "throws"}
    /\ LET r == IF Truthy(code) /\ ~ClientCreated(env, lib)
                    THEN [did |-> [NoSync EXCEPT !.handler = "welcome", !.status = 500,
                                                 !.before = users],
                          table |-> users]
                    ELSE WelcomeHandler(code, users, provider, user, db)
       IN
        /\ users' = r.table
        /\ Respond(r.did)
        /\ env' = [env EXCEPT !.base = IF r.did.status \in {302, 307}
                                        THEN BASE(env) ELSE Undefined]
    /\ UNCHANGED <<gate, login, auth>>
    /\ UNCHANGED side

NextEnv ==
    \E code \in Codes, provider \in {"ok", "error", "throws", "nouser"},
       user \in ProviderUsers \cup {NoUser}, db \in {"up", "down"},
       lib \in {"accepts", "throws"} : EnvWelcomeGET(code, provider, user, db, lib)

SpecEnv == InitEnv /\ [][NextEnv]_vars

\* C21: with any of the three variables missing the application stops with a
\* configuration error: it answers no request and uses no default value.
C21_MissingEnvIsFatal ==
    (~Truthy(env.supabaseUrl) \/ ~Truthy(env.anonKey) \/ ~Truthy(env.siteUrl))
        => /\ resp = NoResponse
           /\ env.base # DefaultBase

-----------------------------------------------------------------------------
\* The gate and the handlers, request by request (specification Spec)

\* C22: for /auth/welcome, /api/auth/set and /api/auth/signout the gate looks
\* no session up and evaluates no redirect rule: the request passes.
C22_AuthPathsSkipLookup ==
    (gate.ran /\ gate.path \in AuthPaths)
        => gate.lookups = 0 /\ gate.outcome = "allow"

\* C23: one request makes the gate look the session up at most once and makes
\* a handler call the provider at most once and upsert at most once; a failed
\* call is not repeated.
C23_NoRetries ==
    /\ gate.lookups <= 1
    /\ gate.threw => gate.lookups = 1
    /\ sync.providerCalls <= 1
    /\ sync.upsertCalls <= 1
    /\ sync.providerResult \in {"error", "throws", "nouser"}
        => sync.providerCalls = 1 /\ sync.upsertCalls = 0
    /\ sync.upsertError # "none" => sync.upsertCalls = 1

\* a sync whose upsert failed, behind a gate that looked the session up
C23_Witness ==
    /\ gate.ran /\ gate.lookups = 1
    /\ sync.handler = "authSet"
    /\ sync.providerCalls = 1
    /\ sync.upsertError = "unavailable"
    /\ sync.upsertCalls = 1

\* C24: the outcome the gate reached for a request is the outcome of any
\* request with the same path and the same presence of a valid session,
\* whatever its cookies are and whatever was handled before.
C24_GateOutcomeStateless ==
    (gate.ran /\ ~gate.threw)
        => \A cookie \in GateCookies :
            \A lookup \in LookupOutcomes(cookie) \ {"throws"} :
                LET other == GateRun(gate.path, cookie, lookup) IN
                (other.session = Undefined <=> gate.session = Undefined)
                    => other.outcome = gate.outcome

\* the second subject on a protected page, after a sign-in of the first
C24_Witness ==
    /\ gate.ran /\ ~gate.threw
    /\ gate.session = Id_long
    /\ gate.path = P_recipes
    /\ gate.outcome = "allow"
    /\ HasRow(users, Id_u1)

\* C27: a redirect of the gate is a new response without the cookies the
\* session lookup wrote; only the allow outcome carries them.
C27_RedirectsCarryNoCookies ==
    /\ (gate.ran /\ gate.outcome \in {"redirect_login", "redirect_home"})
        => gate.carried = NoWrite
    /\ gate.carried # NoWrite => gate.outcome = "allow"
    /\ resp.from = "middleware" => resp.written = NoWrite

\* the lookup rejected an expired session and wrote the cleared cookie, the
\* request was redirected to /login and the browser still holds the cookie
C27_Witness ==
    /\ gate.ran /\ gate.outcome = "redirect_login"
    /\ gate.written = Write(NoCookie)
    /\ gate.carried = NoWrite
    /\ req.stage = "done"
    /\ cookies # NoCookie

-----------------------------------------------------------------------------
\* What the flows write (specification SpecStore)

C28_ProfileEditFrame ==
    sync.handler = "updateProfile"
        => /\ Len(users) = Len(sync.before)
           /\ \A i \in 1..Len(sync.before) :
                /\ users[i].id = sync.before[i].id
                /\ users[i].email = sync.before[i].email
                /\ users[i].username # sync.before[i].username
                    => sync.ok /\ sync.before[i].id = sync.user.id
           /\ sync.user.id # Undefined => cookies.sub = sync.user.id
           /\ sync.providerResult = "nouser"
                => /\ users = sync.before
                   /\ sync.upsertCalls = 0
                   /\ sync.status = 303
                   /\ HandlerLocation(sync) = P_login

\* one of two rows was renamed
C28_Witness ==
    /\ sync.handler = "updateProfile" /\ sync.ok
    /\ Len(users) = 2
    /\ HasRow(users, sync.user.id)
    /\ RowOf(users, sync.user.id).username = N_al
    /\ RowOf(sync.before, sync.user.id).username # N_al

\* C29: createRecipe adds a recipe row only for an authenticated caller and a
\* title that is not empty after trimming, and the row names the caller as
\* author; without a user the action redirects to /login, with an empty title
\* it fails, and neither creates a row.
C29_RecipeNeedsUserAndTitle ==
    [][/\ recipes' # recipes
            => /\ sync'.handler = "createRecipe" /\ sync'.ok
               /\ cookies.sub # Undefined
               /\ Len(recipes') = Len(recipes) + 1
               /\ SubSeq(recipes', 1, Len(recipes)) = recipes
               /\ LET row == recipes'[Len(recipes')] IN
                    /\ row.authorId = cookies.sub
                    /\ row.authorId = sync'.user.id
                    /\ Len(row.title) > 0
                    /\ row.title[1] # " " /\ row.title[Len(row.title)] # " "
       /\ (sync'.handler = "createRecipe" /\ sync'.providerResult = "nouser")
            => /\ ~sync'.ok /\ sync'.status = 303
               /\ HandlerLocation(sync') = P_login
               /\ sync'.upsertCalls = 0
       /\ (sync'.handler = "createRecipe" /\ sync'.upsertError = "title")
            => /\ ~sync'.ok /\ sync'.status = 500
               /\ sync'.upsertCalls = 0]_vars

\* a recipe of the second subject, stored with its title trimmed
C29_Witness ==
    /\ sync.handler = "createRecipe" /\ sync.ok
    /\ recipes = <<[title |-> <<"t">>, authorId |-> Id_long]>>
    /\ HandlerLocation(sync) = P_recipes

-----------------------------------------------------------------------------
\* The login page (specification Spec)

-----------------------------------------------------------------------------
\* src/app/components/AuthProvider.tsx: the effect's two asynchronous sources.
\* auth.provider is the provider's current user, auth.fetch the position of
\* getInitialSession, auth.queue the auth-state-change events not yet handled.

\* the most events waiting for the listener
MaxQueue == 2

\* the users a session can be of, null when signed out
AuthUsers == Subjects \cup {Undefined}

InitAuth ==
    /\ auth \in { [NoAuth EXCEPT !.provider = u] : u \in AuthUsers }
    /\ env = FullEnv
    /\ procs = [p \in {1, 2} |-> NoProc]
    /\ hist = NoHist
    /\ adapter = NoAdapter
    /\ recipes = <<>>
    /\ cookies = NoCookie
    /\ users = <<>>
    /\ req = NoRequest
    /\ resp = NoResponse
    /\ gate = NoGate
    /\ sync = NoSync
    /\ login = NoLogin

AuthFrame ==
    /\ UNCHANGED <<cookies, users, req, resp, gate, sync, login, env>>
    /\ UNCHANGED side

\* supabase.auth.getSession() reads the session the provider has now
FetchRead ==
    /\ auth.fetch = "pending"
    /\ auth' = [auth EXCEPT !.fetch = "read", !.fetched = auth.provider]
    /\ AuthFrame

\* getInitialSession continues after its await: setUser, setLoading(false)
FetchDone ==
    /\ auth.fetch = "read"
    /\ auth' = [auth EXCEPT !.fetch = "done", !.user = auth.fetched, !.loading = FALSE]
    /\ AuthFrame

\* the auth state changes (sign-in, sign-out, in this tab or another) and the
\* provider has an event for the listener
AuthChange(u) ==
    /\ Len(auth.queue) < MaxQueue
    /\ u \in AuthUsers
    /\ u # auth.provider
    /\ auth' = [auth EXCEPT !.provider = u, !.queue = Append(@, u)]
    /\ AuthFrame

\* the listener runs for the oldest event: setUser, setLoading(false)
OnAuthStateChange ==
    /\ auth.queue # <<>>
    /\ auth' = [auth EXCEPT !.queue = Tail(@), !.user = Head(auth.queue),
                            !.loading = FALSE]
    /\ AuthFrame

NextAuth ==
    \/ FetchRead
    \/ FetchDone
    \/ \E u \in AuthUsers : AuthChange(u)
    \/ OnAuthStateChange

SpecAuth == InitAuth /\ [][NextAuth]_vars

\* C26: once the initial fetch has completed and no event is waiting, the
\* context's user is the provider's current user and loading is false.
C26_ContextFollowsProvider ==
    (auth.fetch = "done" /\ auth.queue = <<>>)
        => auth.user = auth.provider /\ ~auth.loading

====
